---------------------------- MODULE Spec2Model ----------------------------
(***************************************************************************)
(* Model of the fvad crate (src/src/lib.rs): a safe wrapper, Fvad, around  *)
(* a handle to the libfvad voice-activity-detection engine.                *)
(*                                                                         *)
(* The wrapper (the enums, the casts, the matches on the engine's return   *)
(* codes, the ownership of the handle) is translated from lib.rs.  The     *)
(* engine behind the ffi:: calls is not part of lib.rs; it is modelled     *)
(* from the interface the specification gives for it (section 6) and from  *)
(* what sections 3 and 4 say it does.                                      *)
(***************************************************************************)
EXTENDS Integers, FiniteSets, TLC

VARIABLES
    sessions,   \* slot -> NoSession, or the Fvad value held there: [fvad |-> pointer]
    heap,       \* address -> the engine instance allocated there, or NoInst
    cfg,        \* slot -> the configuration the calls made through the slot have
                \*         put in effect: [mode, rate] (history variable)
    last,       \* the last call made and what it returned (history variable)
    busy        \* slot -> the method running on the Fvad value there and the thread
                \*         running it, or NoCall

vars == <<sessions, heap, cfg, last, busy>>

----------------------------------------------------------------------------
(* Bounds of the model.                                                    *)

\* Accepted frames per engine instance since its allocation or last reset.
MaxFrames == 2

\* The values a caller holds Fvad values in.
Slots == {"a", "b"}

\* The addresses the allocator hands out.
Handles == {1, 2}

\* The null pointer (fvad.is_null()).
NULL == 0

Ptrs == Handles \cup {NULL}

\* u16 values a caller may try to convert into a SampleRate.
RateRequests == {0, 7999, 8000, 8001, 11025, 16000, 32000, 44100, 48000, 65535}

\* frame.len() of the frames a caller submits.
FrameLens == {0, 1, 79, 80, 160, 240, 320, 321, 480, 640, 960, 1440, 1441}

\* A frame is its length and whether every sample is zero.
Frames == [len : FrameLens, zero : BOOLEAN]

NoSession == [fvad |-> -1]
NoInst == [live |-> FALSE, mode |-> -1, rate |-> -1, frames |-> -1]
NoCfg == [mode |-> "none", rate |-> -1]
NoCall == [thread |-> "none", op |-> "none"]

----------------------------------------------------------------------------
(* The wrapper's types and conversions (lib.rs).                           *)

\* pub enum Mode
Mode == {"Quality", "LowBitrate", "Aggressive", "VeryAggressive"}

\* pub enum SampleRate
SampleRate == {"Rate8kHz", "Rate16kHz", "Rate32kHz", "Rate48kHz"}

\* A cast that numbers the levels from 1.
ModeAsI32OneBased(mode) ==
    CASE mode = "Quality" -> 1
      [] mode = "LowBitrate" -> 2
      [] mode = "Aggressive" -> 3
      [] mode = "VeryAggressive" -> 4

\* `mode as i32`: the discriminants of Mode.
ModeAsI32(mode) ==
    CASE mode = "Quality" -> 0
      [] mode = "LowBitrate" -> 1
      [] mode = "Aggressive" -> 2
      [] mode = "VeryAggressive" -> 3

\* `sample_rate as i32`: the discriminants of SampleRate.
SampleRateAsI32(sample_rate) ==
    CASE sample_rate = "Rate8kHz" -> 8000
      [] sample_rate = "Rate16kHz" -> 16000
      [] sample_rate = "Rate32kHz" -> 32000
      [] sample_rate = "Rate48kHz" -> 48000

\* A conversion with the first arm off by one.
try_from_off_by_one(n) ==
    CASE n = 7999 -> [ok |-> TRUE, val |-> "Rate8kHz"]
      [] n = 16000 -> [ok |-> TRUE, val |-> "Rate16kHz"]
      [] n = 32000 -> [ok |-> TRUE, val |-> "Rate32kHz"]
      [] n = 48000 -> [ok |-> TRUE, val |-> "Rate48kHz"]
      [] OTHER -> [ok |-> FALSE, val |-> "none"]

\* impl TryFrom<u16> for SampleRate: Ok(variant) or Err(()).
try_from(n) ==
    CASE n = 8000 -> [ok |-> TRUE, val |-> "Rate8kHz"]
      [] n = 16000 -> [ok |-> TRUE, val |-> "Rate16kHz"]
      [] n = 32000 -> [ok |-> TRUE, val |-> "Rate32kHz"]
      [] n = 48000 -> [ok |-> TRUE, val |-> "Rate48kHz"]
      [] OTHER -> [ok |-> FALSE, val |-> "none"]

\* The match of Fvad::new with its arms exchanged.
new_ret_inverted(fvad) == IF fvad = NULL THEN "Some" ELSE "None"

\* Fvad::new: match fvad.is_null() { false => Some(fvad.into()), true => None }
new_ret(fvad) == IF fvad = NULL THEN "None" ELSE "Some"

\* The match of set_mode with its first two arms exchanged.
set_mode_ret_swapped(rc) ==
    CASE rc = -1 -> "self"
      [] rc = 0 -> "panic"
      [] OTHER -> "panic"

\* Fvad::set_mode: match on fvad_set_mode's return code.
set_mode_ret(rc) ==
    CASE rc = 0 -> "self"
      [] rc = -1 -> "panic"
      [] OTHER -> "panic"

\* Fvad::set_sample_rate: match on fvad_set_sample_rate's return code.
set_sample_rate_ret(rc) ==
    CASE rc = 0 -> "self"
      [] rc = -1 -> "panic"
      [] OTHER -> "panic"

\* The match of is_voice_frame with the arms for -1 and 0 exchanged.
is_voice_frame_ret_swapped(rc) ==
    CASE rc = -1 -> "Some(false)"
      [] rc = 0 -> "None"
      [] rc = 1 -> "Some(true)"
      [] OTHER -> "panic"

\* The match of is_voice_frame with the results of 0 and 1 exchanged.
is_voice_frame_ret_negated(rc) ==
    CASE rc = -1 -> "None"
      [] rc = 0 -> "Some(true)"
      [] rc = 1 -> "Some(false)"
      [] OTHER -> "panic"

\* The match of is_voice_frame with a last arm that takes any other code for
\* "no decision".
is_voice_frame_ret_lenient(rc) ==
    CASE rc = -1 -> "None"
      [] rc = 0 -> "Some(false)"
      [] rc = 1 -> "Some(true)"
      [] OTHER -> "None"

\* Fvad::is_voice_frame: match on fvad_process's return code.
is_voice_frame_ret(rc) ==
    CASE rc = -1 -> "None"
      [] rc = 0 -> "Some(false)"
      [] rc = 1 -> "Some(true)"
      [] OTHER -> "panic"

----------------------------------------------------------------------------
(* The decision engine behind ffi::fvad_*, from the specification.         *)

\* The modes and rates the engine implements.
EngineModes == 0 .. 3
EngineRates == {8000, 16000, 32000, 48000}

\* new() default-initializes: mode = Quality (0), rate = 8000 Hz, no history.
EngineInit == [live |-> TRUE, mode |-> 0, rate |-> 8000, frames |-> 0]

\* Samples in a frame of 10, 20 or 30 ms at `rate`.
ValidFrameLens(rate) == {(rate * ms) \div 1000 : ms \in {10, 20, 30}}

\* The return codes an engine call may produce when the handle it is given is
\* null, freed or never allocated (undefined behaviour in the C library).
UBCodes == {-1, 0, 1, 2}

\* fvad_reset(inst): clears the adaptive state, restores the defaults.
fvad_reset(inst) == EngineInit

\* fvad_set_mode(inst, mode): 0 and the mode applied, or -1 and nothing changed.
fvad_set_mode(inst, v) ==
    IF v \in EngineModes
    THEN [rc |-> 0, inst |-> [inst EXCEPT !.mode = v]]
    ELSE [rc |-> -1, inst |-> inst]

\* fvad_set_sample_rate(inst, rate): 0 and the rate applied, or -1 and nothing changed.
fvad_set_sample_rate(inst, v) ==
    IF v \in EngineRates
    THEN [rc |-> 0, inst |-> [inst EXCEPT !.rate = v]]
    ELSE [rc |-> -1, inst |-> inst]

\* The decisions the engine may take on a frame of valid length: non-voice on
\* silence when no frame has been classified since new/reset; otherwise the
\* inference is opaque (it depends on the samples and on the adaptive state).
Decisions(inst, zero) == IF zero /\ inst.frames = 0 THEN {0} ELSE {0, 1}

\* fvad_process(inst, frame, length) taking decision d: -1 and nothing changed on
\* a length that is not 10, 20 or 30 ms at the configured rate; otherwise the
\* decision, and the adaptive state has absorbed one more frame.
fvad_process(inst, length, d) ==
    IF length \in ValidFrameLens(inst.rate)
    THEN [rc |-> d, inst |-> [inst EXCEPT !.frames = @ + 1]]
    ELSE [rc |-> -1, inst |-> inst]


----------------------------------------------------------------------------
(* Calls through the wrapper on an engine instance: the cast of the         *)
(* argument, the ffi call, the match on its return code.                   *)

\* reset done as free and new: the instance at the handle is released.
reset_call_frees(inst) == [inst |-> NoInst, rc |-> 0, ret |-> "unit"]

\* reset that forgets the ffi call.
reset_call_noop(inst) == [inst |-> inst, rc |-> 0, ret |-> "unit"]

\* Fvad::reset: unsafe { ffi::fvad_reset(self.fvad) }
reset_call(inst) == [inst |-> fvad_reset(inst), rc |-> 0, ret |-> "unit"]

\* set_mode that reinitializes the instance before it applies the mode.
set_mode_call_resets(inst, mode) ==
    LET r == fvad_set_mode(fvad_reset(inst), ModeAsI32(mode))
    IN  [inst |-> r.inst, rc |-> r.rc, ret |-> set_mode_ret(r.rc)]

\* Fvad::set_mode on a valid instance.
set_mode_call(inst, mode) ==
    LET r == fvad_set_mode(inst, ModeAsI32(mode))
    IN  [inst |-> r.inst, rc |-> r.rc, ret |-> set_mode_ret(r.rc)]

\* Fvad::set_sample_rate on a valid instance.
set_sample_rate_call(inst, sample_rate) ==
    LET r == fvad_set_sample_rate(inst, SampleRateAsI32(sample_rate))
    IN  [inst |-> r.inst, rc |-> r.rc, ret |-> set_sample_rate_ret(r.rc)]

\* Fvad::is_voice_frame on a valid instance, the engine taking decision d.
\* (`frame.len() as u64` widens a usize: the length is passed as it is.)
is_voice_frame_call(inst, frame, d) ==
    LET r == fvad_process(inst, frame.len, d)
    IN  [inst |-> r.inst, rc |-> r.rc, ret |-> is_voice_frame_ret(r.rc)]

\* A call on a pointer that is no live instance: any return code, the heap as it was.
UBCalls(ret(_)) == {[inst |-> NoInst, rc |-> u, ret |-> ret(u)] : u \in UBCodes}

----------------------------------------------------------------------------
(* State.                                                                  *)

NoFrame == [len |-> -1, zero |-> FALSE]

\* again: the call repeats the call before it (same method, slot and argument).
\* live, pre, precfg: the instance and the configuration as the call found them.
NoLast ==
    [op |-> "none", s |-> "none", mode |-> "none", rate |-> "none", req |-> -1,
     frame |-> NoFrame, ptr |-> -1, rc |-> 0, ret |-> "none",
     again |-> FALSE, live |-> FALSE, pre |-> NoInst, precfg |-> NoCfg]

DefaultCfg == [mode |-> "Quality", rate |-> 8000]

\* p points at a live engine instance.
Usable(p) == p \in Handles /\ heap[p].live

Held(s) == sessions[s] # NoSession

\* The record of a call through slot s, before its outcome is filled in.
Call(op, s) ==
    LET p == sessions[s].fvad
    IN  [NoLast EXCEPT !.op = op, !.s = s, !.ptr = p, !.live = Usable(p),
                       !.pre = IF Usable(p) THEN heap[p] ELSE NoInst,
                       !.precfg = cfg[s]]

\* The heap after a call through pointer p whose outcome is c.
HeapAfter(p, c) == IF Usable(p) THEN [heap EXCEPT ![p] = c.inst] ELSE heap

\* The call through slot s has returned: no method is running on the value.
Returned(s) == busy' = [busy EXCEPT ![s] = NoCall]

Init ==
    /\ sessions = [s \in Slots |-> NoSession]
    /\ heap = [h \in Handles |-> NoInst]
    /\ cfg = [s \in Slots |-> NoCfg]
    /\ last = NoLast
    /\ busy = [s \in Slots |-> NoCall]

----------------------------------------------------------------------------
(* Operations.                                                             *)

\* Fvad::new(): ffi::fvad_new() returns null or a fresh instance.
new(s) ==
    /\ ~Held(s)
    /\ Returned(s)
    /\ \E p \in {NULL} \cup {h \in Handles : ~heap[h].live} :
         /\ heap' = IF p = NULL THEN heap ELSE [heap EXCEPT ![p] = EngineInit]
         /\ sessions' = IF new_ret(p) = "Some"
                        THEN [sessions EXCEPT ![s] = [fvad |-> p]]
                        ELSE sessions
         /\ cfg' = IF new_ret(p) = "Some" THEN [cfg EXCEPT ![s] = DefaultCfg] ELSE cfg
         /\ last' = [NoLast EXCEPT !.op = "new", !.s = s, !.ptr = p,
                                   !.ret = new_ret(p)]

\* Fvad::reset(&mut self)
reset(s) ==
    /\ Held(s)
    /\ Returned(s)
    /\ LET p == sessions[s].fvad IN
       \E c \in (IF Usable(p) THEN {reset_call(heap[p])}
                 ELSE {[inst |-> NoInst, rc |-> 0, ret |-> "unit"]}) :
         /\ heap' = HeapAfter(p, c)
         /\ cfg' = [cfg EXCEPT ![s] = DefaultCfg]
         /\ last' = [Call("reset", s) EXCEPT !.rc = c.rc, !.ret = c.ret]
    /\ UNCHANGED sessions

\* Fvad::set_mode(&mut self, mode: Mode)
set_mode(s, mode) ==
    /\ Held(s)
    /\ Returned(s)
    /\ mode \in Mode
    /\ LET p == sessions[s].fvad IN
       \E c \in (IF Usable(p) THEN {set_mode_call(heap[p], mode)}
                 ELSE UBCalls(set_mode_ret)) :
         /\ heap' = HeapAfter(p, c)
         /\ cfg' = IF c.ret = "self" THEN [cfg EXCEPT ![s].mode = mode] ELSE cfg
         /\ last' = [Call("set_mode", s) EXCEPT !.mode = mode, !.rc = c.rc,
                         !.ret = c.ret,
                         !.again = (last.op = "set_mode" /\ last.s = s
                                    /\ last.mode = mode)]
    /\ UNCHANGED sessions

\* Fvad::set_sample_rate(&mut self, sample_rate: SampleRate), the caller's u16
\* (req) recorded when the SampleRate comes from a conversion.
SetSampleRate(s, sample_rate, req) ==
    /\ Held(s)
    /\ Returned(s)
    /\ sample_rate \in SampleRate
    /\ LET p == sessions[s].fvad IN
       \E c \in (IF Usable(p) THEN {set_sample_rate_call(heap[p], sample_rate)}
                 ELSE UBCalls(set_sample_rate_ret)) :
         /\ heap' = HeapAfter(p, c)
         /\ cfg' = IF c.ret = "self"
                   THEN [cfg EXCEPT ![s].rate = SampleRateAsI32(sample_rate)]
                   ELSE cfg
         /\ last' = [Call("set_sample_rate", s) EXCEPT !.rate = sample_rate,
                         !.req = req, !.rc = c.rc, !.ret = c.ret,
                         !.again = (last.op = "set_sample_rate" /\ last.s = s
                                    /\ last.rate = sample_rate)]
    /\ UNCHANGED sessions

set_sample_rate(s, sample_rate) == SetSampleRate(s, sample_rate, -1)

\* A caller holding a u16: SampleRate::try_from(n), and set_sample_rate with the
\* SampleRate when there is one.  On Err(()) no call on the session is made.
request_sample_rate(s, n) ==
    /\ Held(s)
    /\ LET t == try_from(n) IN
       IF t.ok
       THEN SetSampleRate(s, t.val, n)
       ELSE /\ last' = [Call("try_from", s) EXCEPT !.req = n, !.ret = "Err(())"]
            /\ UNCHANGED <<sessions, heap, cfg, busy>>

\* Fvad::is_voice_frame(&mut self, frame: &[i16])
is_voice_frame(s, frame) ==
    /\ Held(s)
    /\ Returned(s)
    /\ LET p == sessions[s].fvad IN
       \E c \in (IF Usable(p)
                 THEN {is_voice_frame_call(heap[p], frame, d) :
                          d \in Decisions(heap[p], frame.zero)}
                 ELSE UBCalls(is_voice_frame_ret)) :
         /\ Usable(p) => c.inst.frames <= MaxFrames
         /\ heap' = HeapAfter(p, c)
         /\ last' = [Call("is_voice_frame", s) EXCEPT !.frame = frame,
                         !.rc = c.rc, !.ret = c.ret]
    /\ UNCHANGED <<sessions, cfg>>

\* impl Drop for Fvad: unsafe { ffi::fvad_free(self.fvad) }, and the value is gone.
drop(s) ==
    /\ Held(s)
    /\ Returned(s)
    /\ LET p == sessions[s].fvad IN
         /\ heap' = IF Usable(p) THEN [heap EXCEPT ![p] = NoInst] ELSE heap
         /\ last' = [Call("drop", s) EXCEPT !.ret = "unit"]
    /\ sessions' = [sessions EXCEPT ![s] = NoSession]
    /\ cfg' = [cfg EXCEPT ![s] = NoCfg]

\* impl From<*mut ffi::Fvad> for Fvad: Fvad { fvad }, for any pointer value.
from(s, fvad) ==
    /\ ~Held(s)
    /\ Returned(s)
    /\ sessions' = [sessions EXCEPT ![s] = [fvad |-> fvad]]
    /\ cfg' = [cfg EXCEPT ![s] = NoCfg]
    /\ last' = [NoLast EXCEPT !.op = "from", !.s = s, !.ptr = fvad, !.ret = "Fvad",
                              !.live = Usable(fvad)]
    /\ UNCHANGED heap

----------------------------------------------------------------------------
(* The wrapper's methods over an engine that does not keep to its          *)
(* interface: the ffi call returns code u and leaves the instance as it    *)
(* was.                                                                    *)

\* Codes fvad_set_mode / fvad_set_sample_rate may return for a Mode or a
\* SampleRate of the wrapper when the engine does not accept it (-1) or breaks
\* its interface (any other code but 0).
ConfigureFaults == {-2, -1, 1, 2}

\* Codes outside -1, 0, 1 from fvad_process.
ProcessFaults == {-2, 2}

\* Fvad::set_mode, the engine returning u.
set_mode_fault(s, mode, u) ==
    /\ Held(s)
    /\ Returned(s)
    /\ mode \in Mode
    /\ Usable(sessions[s].fvad)
    /\ cfg' = IF set_mode_ret(u) = "self" THEN [cfg EXCEPT ![s].mode = mode] ELSE cfg
    /\ last' = [Call("set_mode", s) EXCEPT !.mode = mode, !.rc = u,
                    !.ret = set_mode_ret(u),
                    !.again = (last.op = "set_mode" /\ last.s = s
                               /\ last.mode = mode)]
    /\ UNCHANGED <<sessions, heap>>

\* Fvad::set_sample_rate, the engine returning u.
set_sample_rate_fault(s, sample_rate, u) ==
    /\ Held(s)
    /\ Returned(s)
    /\ sample_rate \in SampleRate
    /\ Usable(sessions[s].fvad)
    /\ cfg' = IF set_sample_rate_ret(u) = "self"
              THEN [cfg EXCEPT ![s].rate = SampleRateAsI32(sample_rate)]
              ELSE cfg
    /\ last' = [Call("set_sample_rate", s) EXCEPT !.rate = sample_rate, !.rc = u,
                    !.ret = set_sample_rate_ret(u),
                    !.again = (last.op = "set_sample_rate" /\ last.s = s
                               /\ last.rate = sample_rate)]
    /\ UNCHANGED <<sessions, heap>>

\* Fvad::is_voice_frame, the engine returning u.
is_voice_frame_fault(s, frame, u) ==
    /\ Held(s)
    /\ Returned(s)
    /\ Usable(sessions[s].fvad)
    /\ last' = [Call("is_voice_frame", s) EXCEPT !.frame = frame, !.rc = u,
                    !.ret = is_voice_frame_ret(u)]
    /\ UNCHANGED <<sessions, heap, cfg>>

----------------------------------------------------------------------------
(* Specifications.                                                         *)

\* The calls a program can make on the Fvad values it holds in slots S, with
\* arguments from the given sets.
Calls(S, Ms, Rs, Ns, Fs) ==
    \/ \E s \in S : new(s)
    \/ \E s \in S : reset(s)
    \/ \E s \in S, mode \in Ms : set_mode(s, mode)
    \/ \E s \in S, sample_rate \in Rs : set_sample_rate(s, sample_rate)
    \/ \E s \in S, n \in Ns : request_sample_rate(s, n)
    \/ \E s \in S, frame \in Fs : is_voice_frame(s, frame)
    \/ \E s \in S : drop(s)

\* One session at a time, made by Fvad::new() and used through the methods of
\* Fvad with every argument of the model.
Next == Calls({"a"}, Mode, SampleRate, RateRequests, Frames)

\* (Each call runs to its end before the next starts: busy stays empty.)
Spec == Init /\ [][Next]_vars

\* Two Fvad values at a time, made by Fvad::new() or from a raw pointer by the
\* From conversion; fewer arguments, the ownership of the handles being the
\* subject.
FromModes == {"Quality", "Aggressive"}
FromRates == {"Rate8kHz", "Rate16kHz"}
FromRequests == {11025, 16000}
FromFrames == [len : {80, 321}, zero : {TRUE}]

NextFrom ==
    \/ Calls(Slots, FromModes, FromRates, FromRequests, FromFrames)
    \/ \E s \in Slots, fvad \in Ptrs : from(s, fvad)

SpecFrom == Init /\ [][NextFrom]_vars

\* One session at a time, made by Fvad::new(), over an engine that may return
\* any code from a call.
EngineFrames == [len : {80, 160, 321}, zero : BOOLEAN]

NextEngine ==
    \/ Calls({"a"}, Mode, SampleRate, RateRequests, EngineFrames)
    \/ \E mode \in Mode, u \in ConfigureFaults : set_mode_fault("a", mode, u)
    \/ \E sample_rate \in SampleRate, u \in ConfigureFaults :
          set_sample_rate_fault("a", sample_rate, u)
    \/ \E frame \in EngineFrames, u \in ProcessFaults : is_voice_frame_fault("a", frame, u)

SpecEngine == Init /\ [][NextEngine]_vars

----------------------------------------------------------------------------
(* Threads.  Fvad is Send (unsafe impl Send for Fvad) and not Sync, and      *)
(* every method and drop takes &mut self: a thread can call a method on a  *)
(* value only while no other call on that value is running; between calls  *)
(* the value may move to another thread.  A call is two steps: it starts   *)
(* (the thread is inside the method), and it finishes, the engine call     *)
(* taking its effect.                                                      *)

Threads == {"t1", "t2"}

ThreadModes == {"Aggressive"}
ThreadRates == {"Rate16kHz"}
ThreadFrames == [len : {321}, zero : {TRUE}]

\* Two calls are running on values that hold the same handle.
Overlap ==
    \E s1, s2 \in Slots :
        /\ s1 # s2
        /\ busy[s1] # NoCall
        /\ busy[s2] # NoCall
        /\ sessions[s1].fvad = sessions[s2].fvad

\* Thread t starts method op on the value in slot s: &mut self, so no call is
\* running on that value, and t is in no other call.
begin(t, s, op) ==
    /\ Held(s)
    /\ busy[s] = NoCall
    /\ \A s2 \in Slots : busy[s2].thread # t
    /\ busy' = [busy EXCEPT ![s] = [thread |-> t, op |-> op]]
    /\ UNCHANGED <<sessions, heap, cfg, last>>

\* The call running on slot s finishes.  Two engine calls running on one
\* instance at once are a data race, undefined behaviour: no outcome is given
\* for them.
finish(s) ==
    /\ busy[s] # NoCall
    /\ ~Overlap
    /\ \/ busy[s].op = "reset" /\ reset(s)
       \/ busy[s].op = "set_mode" /\ \E mode \in ThreadModes : set_mode(s, mode)
       \/ busy[s].op = "set_sample_rate"
             /\ \E sample_rate \in ThreadRates : set_sample_rate(s, sample_rate)
       \/ busy[s].op = "is_voice_frame"
             /\ \E frame \in ThreadFrames : is_voice_frame(s, frame)
       \/ busy[s].op = "drop" /\ drop(s)

\* Values made by Fvad::new() only.
NextThreads ==
    \/ \E s \in Slots : new(s)
    \/ \E t \in Threads, s \in Slots, op \in {"reset", "set_mode", "set_sample_rate",
                                             "is_voice_frame", "drop"} : begin(t, s, op)
    \/ \E s \in Slots : finish(s)

SpecThreads == Init /\ [][NextThreads]_vars

\* Values made by Fvad::new() or by the From conversion.
NextThreadsFrom ==
    \/ NextThreads
    \/ \E s \in Slots, fvad \in Ptrs : from(s, fvad)

SpecThreadsFrom == Init /\ [][NextThreadsFrom]_vars

----------------------------------------------------------------------------
(* Properties.                                                             *)

Decision == {"Some(false)", "Some(true)"}

\* The frame lengths of 10, 20 and 30 ms at `rate`, as multiples of rate/100.
TenMsMultiples(rate) == {rate \div 100, (2 * rate) \div 100, (3 * rate) \div 100}

\* The instance behind the last call, as the call left it.
LastInst == heap[last.ptr]

\* C1: is_voice_frame returns a decision exactly when frame.len() is rate/100,
\* 2*rate/100 or 3*rate/100 for the rate in effect (the last one set since the
\* last new/reset, else 8000), and None for every other length.
C1_DecisionIffValidLength ==
    last.op = "is_voice_frame" =>
        IF last.frame.len \in TenMsMultiples(cfg[last.s].rate)
        THEN last.ret \in Decision
        ELSE last.ret = "None"

\* A frame of 30 ms at 48000 Hz was classified.
C1_Witness ==
    /\ last.op = "is_voice_frame"
    /\ cfg[last.s].rate = 48000
    /\ last.frame.len = 1440
    /\ last.ret \in Decision

\* C2: an is_voice_frame call that returns None (invalid frame length) changes
\* nothing: every engine instance, the session and its configuration are after
\* the call what they were before it.
C2_RejectedFrameChangesNothing ==
    [][(last'.op = "is_voice_frame" /\ last'.ret = "None")
         => (heap' = heap /\ sessions' = sessions /\ cfg' = cfg)]_vars

\* At 16000 Hz, with frames already classified, a 321-sample frame was rejected.
C2_Witness ==
    /\ last.op = "is_voice_frame"
    /\ last.ret = "None"
    /\ last.frame.len = 321
    /\ cfg[last.s].rate = 16000
    /\ last.pre.frames > 0
    /\ LastInst = last.pre

\* C3: a request for a sample rate other than 8000, 16000, 32000, 48000 is
\* answered Err(()) and leaves the rate (and everything else) as it was; each of
\* the four is accepted and becomes the rate in effect.
C3_UnsupportedRateRejected ==
    (last.op \in {"try_from", "set_sample_rate"} /\ last.req # -1) =>
        IF last.req \in {8000, 16000, 32000, 48000}
        THEN /\ last.op = "set_sample_rate"
             /\ last.ret = "self"
             /\ cfg[last.s].rate = last.req
             /\ LastInst.rate = last.req
        ELSE /\ last.op = "try_from"
             /\ last.ret = "Err(())"
             /\ cfg[last.s] = last.precfg
             /\ LastInst = last.pre

\* 11025 was requested of a session at 32000 Hz.
C3_Witness ==
    /\ last.op = "try_from"
    /\ last.req = 11025
    /\ last.ret = "Err(())"
    /\ LastInst.rate = 32000

\* A request to set the mode to ordinal v: set_mode takes a Mode, so the
\* request is a set_mode call with the Mode whose discriminant is v.
set_mode_ordinal(s, v) == \E mode \in Mode : ModeAsI32(mode) = v /\ set_mode(s, mode)

\* C4 as stated: a session can be asked for mode ordinal 4, and answers
\* InvalidMode with the mode it had still in effect.
C4_OutOfRangeReportedInvalidMode ==
    \A s \in Slots :
        Held(s) => ENABLED (/\ set_mode_ordinal(s, 4)
                            /\ last'.ret = "InvalidMode"
                            /\ heap' = heap)

\* C4 (amended): set_mode takes only the four levels of Mode, whose ordinals
\* are 0..3; each is accepted (the call returns the session, never an error)
\* and becomes the mode in effect, the rate and the adaptive state staying as
\* they were.
C4_EveryModeAccepted ==
    last.op = "set_mode" =>
        /\ last.mode \in Mode
        /\ ModeAsI32(last.mode) \in 0 .. 3
        /\ last.ret = "self"
        /\ cfg[last.s].mode = last.mode
        /\ LastInst = [last.pre EXCEPT !.mode = ModeAsI32(last.mode)]

\* VeryAggressive was set on a session in another mode.
C4_Witness ==
    /\ last.op = "set_mode"
    /\ last.mode = "VeryAggressive"
    /\ last.pre.mode # 3
    /\ LastInst.mode = 3

\* C5: after reset the session has mode Quality, rate 8000 Hz and no adaptive
\* state, whatever it had before; reset returns () and cannot report a failure.
C5_ResetRestoresDefaults ==
    last.op = "reset" =>
        /\ last.ret = "unit"
        /\ LastInst.live
        /\ LastInst.mode = ModeAsI32("Quality")
        /\ LastInst.rate = 8000
        /\ LastInst.frames = 0

\* A session in mode VeryAggressive at 48000 Hz with frames classified was reset.
C5_Witness ==
    /\ last.op = "reset"
    /\ last.pre.mode = 3
    /\ last.pre.rate = 48000
    /\ last.pre.frames = MaxFrames

\* C6: Fvad::new() returns None exactly when fvad_new() returned null;
\* otherwise Some(session) holding that handle, in mode Quality at 8000 Hz.
C6_NewFailsIffNull ==
    last.op = "new" =>
        /\ last.ret \in {"None", "Some"}
        /\ last.ret = "None" <=> last.ptr = NULL
        /\ last.ret = "None" => ~Held(last.s)
        /\ last.ret = "Some" =>
              /\ Held(last.s)
              /\ sessions[last.s].fvad = last.ptr
              /\ Usable(last.ptr)
              /\ LastInst.mode = ModeAsI32("Quality")
              /\ LastInst.rate = 8000

\* The allocation failed.
C6_Witness == last.op = "new" /\ last.ptr = NULL /\ last.ret = "None"

\* C7: a session that has classified no frame since new/reset, at any of the
\* four rates, classifies an all-zero frame of valid length as non-voice.
C7_FreshSilenceIsNonVoice ==
    (/\ last.op = "is_voice_frame"
     /\ last.frame.zero
     /\ last.pre.frames = 0
     /\ last.frame.len \in TenMsMultiples(cfg[last.s].rate)) => last.ret = "Some(false)"

\* A fresh session set to 32000 Hz classified 30 ms of silence.
C7_Witness ==
    /\ last.op = "is_voice_frame"
    /\ last.frame.zero
    /\ last.pre.frames = 0
    /\ cfg[last.s].rate = 32000
    /\ last.frame.len = 960
    /\ last.ret = "Some(false)"

\* C8: a set_mode(m) or set_sample_rate(r) call that repeats the call before it
\* reports no error and leaves the instance and the configuration as the first
\* call left them.
C8_ConfigurationIdempotent ==
    (last.op \in {"set_mode", "set_sample_rate"} /\ last.again) =>
        /\ last.ret = "self"
        /\ LastInst = last.pre
        /\ cfg[last.s] = last.precfg

\* set_mode(Aggressive) was called twice in a row.
C8_Witness ==
    /\ last.op = "set_mode"
    /\ last.again
    /\ last.mode = "Aggressive"
    /\ LastInst.mode = 2

\* C9: every handle is freed exactly once, when its session is dropped: no two
\* sessions hold the same handle, drop frees a handle that is live (not freed
\* before), and every live handle belongs to a session.
C9_HandleFreedExactlyOnce ==
    /\ \A s1, s2 \in Slots :
          (Held(s1) /\ Held(s2) /\ s1 # s2) => sessions[s1].fvad # sessions[s2].fvad
    /\ last.op = "drop" => last.live
    /\ \A h \in Handles : heap[h].live => \E s \in Slots : sessions[s].fvad = h

\* C10: is_voice_frame returns None exactly when fvad_process returned -1,
\* Some(false) exactly when 0, Some(true) exactly when 1.
C10_ThreeWayOutcome ==
    last.op = "is_voice_frame" =>
        /\ last.ret = "None" <=> last.rc = -1
        /\ last.ret = "Some(false)" <=> last.rc = 0
        /\ last.ret = "Some(true)" <=> last.rc = 1

\* The engine found voice.
C10_Witness == last.op = "is_voice_frame" /\ last.rc = 1 /\ last.ret = "Some(true)"

\* C11: when the engine returns a code other than 0 or -1 from a configure
\* call, or other than -1, 0, 1 from fvad_process, the method panics: it returns
\* neither the session nor Some(_) nor None.
C11_UndocumentedCodePanics ==
    /\ (last.op \in {"set_mode", "set_sample_rate"} /\ last.rc \notin {0, -1})
          => last.ret = "panic"
    /\ (last.op = "is_voice_frame" /\ last.rc \notin {-1, 0, 1})
          => last.ret = "panic"

\* fvad_process returned 2.
C11_Witness == last.op = "is_voice_frame" /\ last.rc = 2 /\ last.ret = "panic"

\* C12 as stated: when the engine returns -1 from a configure call, set_mode /
\* set_sample_rate return an error value (they do not panic), the configuration
\* staying as it was.
C12_ConfigureFailureIsErrorReturn ==
    (last.op \in {"set_mode", "set_sample_rate"} /\ last.rc = -1) =>
        /\ last.ret # "panic"
        /\ LastInst = last.pre
        /\ cfg[last.s] = last.precfg

\* C12 (amended): the engine's documented failure code -1 is an ordinary return
\* only from is_voice_frame (None); from set_mode and set_sample_rate it is a
\* panic.  In both cases the session still holds its handle and the
\* configuration is the one before the call.
C12_ConfigureFailurePanics ==
    (last.op \in {"set_mode", "set_sample_rate", "is_voice_frame"} /\ last.rc = -1) =>
        /\ last.ret = IF last.op = "is_voice_frame" THEN "None" ELSE "panic"
        /\ Held(last.s)
        /\ sessions[last.s].fvad = last.ptr
        /\ LastInst = last.pre
        /\ cfg[last.s] = last.precfg

\* fvad_set_sample_rate returned -1 for a session at 32000 Hz.
C12_Witness ==
    /\ last.op = "set_sample_rate"
    /\ last.rc = -1
    /\ last.ret = "panic"
    /\ LastInst.rate = 32000

\* C13: whatever a held session has been through, set_mode with each Mode and
\* set_sample_rate with each SampleRate can be called and return the session,
\* reset can be called, and is_voice_frame can be called with every frame (as
\* long as the instance stays within the frames the model counts).
C13_CallsAlwaysEnabled ==
    \A s \in Slots :
        Held(s) =>
            /\ \A mode \in Mode : ENABLED (set_mode(s, mode) /\ last'.ret = "self")
            /\ \A sample_rate \in SampleRate :
                  ENABLED (set_sample_rate(s, sample_rate) /\ last'.ret = "self")
            /\ ENABLED reset(s)
            /\ \E frame \in Frames : ENABLED is_voice_frame(s, frame)
            /\ heap[sessions[s].fvad].frames < MaxFrames =>
                  \A frame \in Frames : ENABLED is_voice_frame(s, frame)

\* A session has classified as many frames as the model counts, the last one
\* just now.
C13_Witness ==
    /\ last.op = "is_voice_frame"
    /\ last.ret \in Decision
    /\ LastInst.frames = MaxFrames

\* C15: a held session has exactly one configuration in effect, a mode in 0..3
\* and a rate in 8000, 16000, 32000, 48000, the one its calls have set; a
\* configuration request that fails (Err(()) or a panic) leaves it as it was.
C15_ValidConfigurationInEffect ==
    /\ \A s \in Slots :
          Held(s) =>
              LET inst == heap[sessions[s].fvad]
              IN  /\ inst.mode \in 0 .. 3
                  /\ inst.rate \in {8000, 16000, 32000, 48000}
                  /\ cfg[s].mode \in Mode
                  /\ ModeAsI32(cfg[s].mode) = inst.mode
                  /\ cfg[s].rate = inst.rate
    /\ (last.op \in {"try_from", "set_mode", "set_sample_rate"} /\ last.ret # "self")
          => (LastInst = last.pre /\ cfg[last.s] = last.precfg)

\* A request for 11025 failed on a session in mode Aggressive at 16000 Hz.
C15_Witness ==
    /\ last.op = "try_from"
    /\ last.req = 11025
    /\ LastInst.mode = 2
    /\ LastInst.rate = 16000

\* C17: reset, set_mode, set_sample_rate (also when the conversion fails) and
\* is_voice_frame leave the session holding the handle it held, and neither
\* free nor allocate an engine instance.
C17_HandleKept ==
    [][last'.op \in {"reset", "set_mode", "set_sample_rate", "try_from", "is_voice_frame"}
         => /\ sessions' = sessions
            /\ \A h \in Handles : heap'[h].live = heap[h].live]_vars

\* A session that had classified frames was reset and holds the same live handle.
C17_Witness ==
    /\ last.op = "reset"
    /\ last.pre.frames > 0
    /\ sessions[last.s].fvad = last.ptr
    /\ Usable(last.ptr)

\* C18: a set_mode that succeeds leaves the rate as it was, a set_sample_rate
\* that succeeds leaves the mode as it was, and is_voice_frame, accepted or
\* rejected, leaves both as they were.
C18_ConfigurationDimensionsIndependent ==
    /\ (last.op = "set_mode" /\ last.ret = "self")
          => (LastInst.rate = last.pre.rate /\ cfg[last.s].rate = last.precfg.rate)
    /\ (last.op = "set_sample_rate" /\ last.ret = "self")
          => (LastInst.mode = last.pre.mode /\ cfg[last.s].mode = last.precfg.mode)
    /\ last.op = "is_voice_frame"
          => /\ LastInst.mode = last.pre.mode
             /\ LastInst.rate = last.pre.rate
             /\ cfg[last.s] = last.precfg

\* The mode of a session at 48000 Hz was changed.
C18_Witness ==
    /\ last.op = "set_mode"
    /\ last.ret = "self"
    /\ last.pre.rate = 48000
    /\ LastInst.mode # last.pre.mode

\* The methods that pass the handle to the engine.
EngineOps == {"reset", "set_mode", "set_sample_rate", "is_voice_frame", "drop"}

\* C14: drop is terminal and the only end of a session: the call that follows a
\* drop which freed a handle is no engine call on that handle (unless new()
\* has made it live again), and a session ceases to be held only by drop.
C14_DropIsTerminal ==
    [][/\ (/\ last.op = "drop"
           /\ last.live
           /\ last'.op \in EngineOps
           /\ last'.ptr = last.ptr) => last'.live
       /\ \A s \in Slots : (Held(s) /\ ~Held(s)') => last'.op = "drop"]_vars

\* C19: every Fvad value holds a non-null handle, and no method or drop passes
\* a null handle to the engine.
C19_HandleNeverNull ==
    /\ \A s \in Slots : Held(s) => sessions[s].fvad # NULL
    /\ last.op \in EngineOps => last.ptr # NULL

\* C16: a value may pass from thread to thread between calls, but no two
\* calls run at once on one session, and no two engine calls run at once on
\* one handle.
C16_NoConcurrentUse ==
    /\ \A s \in Slots : busy[s] # NoCall => Held(s)
    /\ \A s1, s2 \in Slots :
          (s1 # s2 /\ busy[s1] # NoCall /\ busy[s2] # NoCall)
              => /\ busy[s1].thread # busy[s2].thread
                 /\ sessions[s1].fvad # sessions[s2].fvad

=============================================================================
